---- MODULE Spec2Model ----
(***************************************************************************)
(* Model of the /api/process endpoint (web/app/api/process/route.ts): one  *)
(* multipart POST request is parsed, every uploaded File is pushed through *)
(* runGeneration (prompt, base64, primary generator, fallback generator,   *)
(* validator) and the per-file results are returned.                       *)
(*                                                                         *)
(* The libraries behind buildPrompt, fileToBase64, generateWithFal,        *)
(* generateWithPollinations and validateMarineScene are external to the    *)
(* handler; each call is a start step and a return step, and the return    *)
(* step picks its outcome from the outcomes the call site allows (a value  *)
(* or a thrown value).  An optional value (string | undefined, or a form   *)
(* field that may be absent) is a sequence of length 0 or 1.               *)
(*                                                                         *)
(* The second part models the page component (Page): the upload list with  *)
(* its preview object URLs, handleProcess with its request to /api/process *)
(* and resetWorkspace.  Spec runs the endpoint with the page at rest,      *)
(* PageSpec runs the page with the endpoint's answer as an outcome of the  *)
(* request.                                                                *)
(***************************************************************************)
EXTENDS Integers, Sequences, FiniteSets, TLC

MaxImages == 2

MaxRaw == 5

MaxUploads == 2

MaxLaunches == 2

\* Pieces of the text of the emphasis field: brackets, comma, blank, the double
\* quote (q), a letter, and O, the text {"toString":1} of a JSON object that
\* String() cannot convert.
Chunks == {"[", "]", ",", " ", "q", "a", "O"}

FileNames == {"a.png", ""}

Aspects == {"1:1", "4:3", "3:2", "16:9"}

AspectInputs == {<<>>, <<"1:1">>, <<"4:3">>, <<"3:2">>, <<"16:9">>, <<"">>, <<"2:1">>}

Modes == {"running", "anchored", "showcase"}

Moods == {"sunrise", "midday", "sunset", "night"}

Lenses == {"wide", "telephoto", "immersive"}

ModeInputs == {<<>>, <<"running">>, <<"showcase">>, <<"flying">>, <<"">>}

MoodInputs == {<<>>, <<"night">>, <<"noon">>}

LensInputs == {<<>>, <<"telephoto">>, <<"fisheye">>}

FalUrls == {"https://fal.media/out.png"}

PollUrls == {"https://image.pollinations.ai/out.png"}

ValidationStatuses == {"approved", "flagged", "skipped"}

Thrown == {[isError |-> TRUE, message |-> "service unavailable"],
           [isError |-> FALSE, message |-> "not an Error"]}

ExternalCalls == {"generateWithFal", "generateWithPollinations", "validateMarineScene"}

VARIABLES form, falKey, pc, params, emphasis, aspectRatio, files, results, response, gen, calls, uuidCount

serverVars == <<form, falKey, pc, params, emphasis, aspectRatio, files, results, response, gen, calls, uuidCount>>

\* state of the page component (useState hooks, the object URLs revoked so far,
\* the /api/process requests in flight)
VARIABLES pageFiles, revoked, isProcessing, pageResults, error, requests,
          uploadCount, launches, sinceReset, mounted

pageVars == <<pageFiles, revoked, isProcessing, pageResults, error, requests,
              uploadCount, launches, sinceReset, mounted>>

vars == <<serverVars, pageVars>>

\* ---- outcomes of the awaited calls ----

Pending == [kind |-> "pending", val |-> "", isError |-> FALSE]

Value(v) == [kind |-> "value", val |-> v, isError |-> FALSE]

Throw(t) == [kind |-> "throw", val |-> t.message, isError |-> t.isError]

Throws == {Throw(t) : t \in Thrown}

PromptOutcomes == {Value("prompt")} \cup Throws

Base64Outcomes == {Value("base64")} \cup Throws

\* generateWithFal resolves to a string (possibly empty) or rejects.
FalOutcomes == {Value(u) : u \in FalUrls \cup {""}} \cup Throws

\* generateWithPollinations resolves to the URL it builds, or rejects.
PollOutcomes == {Value(u) : u \in PollUrls} \cup Throws

ValidatorOutcomes == {Value(s) : s \in ValidationStatuses} \cup Throws

\* ---- form data ----

FileEntry(n) == [kind |-> "file", name |-> n]

StringEntry == [kind |-> "string", name |-> "text"]

Entries == {FileEntry(n) : n \in FileNames} \cup {StringEntry}

SeqUpTo(S, n) == UNION {[1..k -> S] : k \in 0..n}

Texts == SeqUpTo(Chunks, MaxRaw)

AbsentField == [kind |-> "absent", text |-> <<>>]

FileField == [kind |-> "file", text |-> <<>>]

StringField(t) == [kind |-> "string", text |-> t]

EmphasisInputs == {AbsentField, FileField} \cup {StringField(t) : t \in Texts}

\* The scalar fields are parsed once and play no part in the batch loop: every
\* combination of mode, mood, lens and aspect ratio is tried with the requests
\* of at most one entry, every emphasis text with the request without entries
\* (two of them with a request of one file), and longer requests with an absent
\* and a submitted aspect ratio.
Forms ==
  {f \in [images : SeqUpTo(Entries, MaxImages), aspectRatio : AspectInputs,
          mode : ModeInputs, mood : MoodInputs, lens : LensInputs,
          emphasis : {AbsentField}] :
     \/ Len(f.images) <= 1
     \/ /\ f.aspectRatio \in {<<>>, <<"16:9">>}
        /\ f.mode = <<>> /\ f.mood = <<>> /\ f.lens = <<>>}
  \cup
  [images : {<<>>}, aspectRatio : {<<>>}, mode : {<<>>},
   mood : {<<>>}, lens : {<<>>}, emphasis : EmphasisInputs]
  \cup
  [images : {<<FileEntry("a.png")>>}, aspectRatio : {<<>>}, mode : {<<>>},
   mood : {<<>>}, lens : {<<>>},
   emphasis : {FileField, StringField(<<"[", "q", "a", "q", "]">>)}]

\* ---- JSON.parse, String(), split, trim on texts ----

JString(t) == [t |-> "string", s |-> t, items |-> <<>>]

JArray(xs) == [t |-> "array", s |-> <<>>, items |-> xs]

JObject == [t |-> "object", s |-> <<>>, items |-> <<>>]

Parsed(v, n) == [ok |-> TRUE, val |-> v, next |-> n]

SyntaxError == [ok |-> FALSE, val |-> JObject, next |-> 0]

\* first position from i on that holds no blank (Len(t) + 1 when there is none)
SkipWs(t, i) ==
  CHOOSE j \in i..(Len(t) + 1) :
    /\ \A k \in i..(j - 1) : t[k] = " "
    /\ IF j = Len(t) + 1 THEN TRUE ELSE t[j] # " "

Min(S) == CHOOSE x \in S : \A y \in S : x <= y

RECURSIVE ParseValue(_, _), ParseElements(_, _, _)

\* the JSON value that starts at position i of t
ParseValue(t, i) ==
  IF i > Len(t) THEN SyntaxError
  ELSE IF t[i] = "q"
    THEN LET close == {j \in (i + 1)..Len(t) : t[j] = "q"} IN
           IF close = {} THEN SyntaxError
           ELSE Parsed(JString(SubSeq(t, i + 1, Min(close) - 1)), Min(close) + 1)
  ELSE IF t[i] = "O" THEN Parsed(JObject, i + 1)
  ELSE IF t[i] = "["
    THEN LET j == SkipWs(t, i + 1) IN
           IF j <= Len(t) /\ t[j] = "]" THEN Parsed(JArray(<<>>), j + 1)
           ELSE ParseElements(t, j, <<>>)
  ELSE SyntaxError

\* the elements of an array from position i on, up to its closing bracket
ParseElements(t, i, acc) ==
  LET v == ParseValue(t, i) IN
    IF ~v.ok THEN SyntaxError
    ELSE LET j == SkipWs(t, v.next) IN
           IF j > Len(t) THEN SyntaxError
           ELSE IF t[j] = "]" THEN Parsed(JArray(Append(acc, v.val)), j + 1)
           ELSE IF t[j] = "," THEN ParseElements(t, SkipWs(t, j + 1), Append(acc, v.val))
           ELSE SyntaxError

JSONParse(t) ==
  LET v == ParseValue(t, SkipWs(t, 1)) IN
    IF v.ok /\ SkipWs(t, v.next) = Len(t) + 1 THEN v ELSE SyntaxError

RECURSIVE ToStr(_), JoinStr(_, _)

\* String(value): the text, or a TypeError
ToStr(v) ==
  IF v.t = "string" THEN [throws |-> FALSE, s |-> v.s]
  ELSE IF v.t = "array" THEN JoinStr(v.items, 1)
  ELSE [throws |-> TRUE, s |-> <<>>]

\* Array.prototype.join(",") from element k on
JoinStr(items, k) ==
  IF k > Len(items) THEN [throws |-> FALSE, s |-> <<>>]
  ELSE LET head == ToStr(items[k])
           rest == JoinStr(items, k + 1)
       IN IF head.throws \/ rest.throws THEN [throws |-> TRUE, s |-> <<>>]
          ELSE [throws |-> FALSE,
                s |-> IF k = Len(items) THEN head.s ELSE head.s \o <<",">> \o rest.s]

Trim(t) ==
  LET solid == {k \in 1..Len(t) : t[k] # " "} IN
    IF solid = {} THEN <<>>
    ELSE SubSeq(t, Min(solid), CHOOSE x \in solid : \A y \in solid : y <= x)

RECURSIVE SplitComma(_)

SplitComma(t) ==
  LET commas == {k \in 1..Len(t) : t[k] = ","} IN
    IF commas = {} THEN <<t>>
    ELSE <<SubSeq(t, 1, Min(commas) - 1)>> \o SplitComma(SubSeq(t, Min(commas) + 1, Len(t)))

NonEmpty(t) == t # <<>>

\* .split(",").map((entry) => entry.trim()).filter(Boolean)
SplitTrimFilter(t) ==
  LET parts == SplitComma(t) IN
    SelectSeq([k \in 1..Len(parts) |-> Trim(parts[k])], NonEmpty)

parseJsonArray(raw) ==
  IF raw.kind # "string" \/ raw.text = <<>> THEN <<>>
  ELSE LET parsed == JSONParse(raw.text) IN
    IF ~parsed.ok THEN SplitTrimFilter(raw.text)
    ELSE IF parsed.val.t = "array"
      THEN LET strs == [k \in 1..Len(parsed.val.items) |-> ToStr(parsed.val.items[k])] IN
             IF \E k \in 1..Len(strs) : strs[k].throws
               THEN SplitTrimFilter(raw.text)
               ELSE SelectSeq([k \in 1..Len(strs) |-> Trim(strs[k].s)], NonEmpty)
    ELSE IF parsed.val.t = "string" THEN SplitTrimFilter(parsed.val.s)
    ELSE <<>>

\* ---- pure helpers of route.ts ----

IsAnyEntry(e) == TRUE

IsFileEntry(e) == e.kind = "file"

\* formData.get(name)?.toString() ?? fallback
OrDefault(field, fallback) == IF field = <<>> THEN fallback ELSE field[1]

AspectRatioRaw(field) == IF field = <<>> THEN "3:2" ELSE field[1]

NormalizeAspectNarrow(raw) ==
  IF raw = "1:1" \/ raw = "16:9" THEN raw ELSE "3:2"

NormalizeAspect(raw) ==
  IF raw = "1:1" \/ raw = "4:3" \/ raw = "16:9" THEN raw ELSE "3:2"

UploadName(id) == <<"upload-", id, ".png">>

OriginalName(file, id) == IF file.name # "" THEN <<file.name>> ELSE UploadName(id)

FalsyAlways(imageUrl) == TRUE

Falsy(imageUrl) == imageUrl = <<>> \/ imageUrl = <<"">>

StageOfApprovedOnly(status) == IF status = "approved" THEN "completed" ELSE "failed"

StageOf(status) == IF status = "flagged" THEN "failed" ELSE "completed"

ErrorStringMessage(out) == out.val

ErrorString(out) ==
  IF out.isError THEN out.val ELSE "Unknown generation error encountered."

SuccessResult(g, status, ar) ==
  [id |-> g.id,
   originalName |-> g.originalName,
   stage |-> StageOf(status),
   imageUrl |-> g.imageUrl[1],
   validation |-> [status |-> status],
   metadata |-> [mode |-> params.mode, lens |-> params.lens, mood |-> params.mood,
                 engine |-> g.usedEngine, aspectRatio |-> ar]]

FailedResult(g, out) ==
  [id |-> g.id,
   originalName |-> g.originalName,
   stage |-> "failed",
   error |-> ErrorString(out)]

PushResultFront(rs, r) == <<r>> \o rs

PushResult(rs, r) == Append(rs, r)

\* ---- state ----

IdleGen == [pc |-> "idle", id |-> 0, originalName |-> <<>>, imageUrl |-> <<>>,
            usedEngine |-> "", result |-> <<>>]

\* the page after its first render
PageMounted ==
  /\ pageFiles = <<>>
  /\ revoked = {}
  /\ isProcessing = FALSE
  /\ pageResults = <<>>
  /\ error = <<>>
  /\ requests = {}
  /\ uploadCount = 0
  /\ launches = 0
  /\ sinceReset = FALSE
  /\ mounted = TRUE

Init ==
  /\ PageMounted
  /\ form \in Forms
  /\ falKey \in BOOLEAN
  /\ pc = "start"
  /\ params = [mode |-> "", lens |-> "", mood |-> ""]
  /\ emphasis = <<>>
  /\ aspectRatio = ""
  /\ files = <<>>
  /\ results = <<>>
  /\ response = <<>>
  /\ gen = <<>>
  /\ calls = <<>>
  /\ uuidCount = 0

\* ---- call log ----

Call(svc, i, arg) == [svc |-> svc, file |-> i, arg |-> arg, out |-> Pending]

Started(svc, i, arg) == Append(calls, Call(svc, i, arg))

\* the awaited call of file i returns: its entry is the last one of file i
Returned(log, i, out) ==
  LET k == CHOOSE n \in 1..Len(log) :
             log[n].file = i /\ \A m \in (n+1)..Len(log) : log[m].file # i
  IN [log EXCEPT ![k].out = out]

\* ---- POST ----

ParseForm ==
  /\ pc = "start"
  /\ LET fs == SelectSeq(form.images, IsFileEntry) IN
       /\ files' = fs
       /\ IF Len(fs) = 0
            THEN /\ response' = <<[status |-> 400,
                                   body |-> [error |-> "No images provided."]]>>
                 /\ pc' = "done"
                 /\ gen' = <<>>
            ELSE /\ pc' = "loop"
                 /\ gen' = [i \in 1..Len(fs) |-> IdleGen]
                 /\ UNCHANGED response
  /\ params' = [mode |-> OrDefault(form.mode, "running"),
                lens |-> OrDefault(form.lens, "wide"),
                mood |-> OrDefault(form.mood, "sunrise")]
  /\ emphasis' = parseJsonArray(form.emphasis)
  /\ aspectRatio' = NormalizeAspect(AspectRatioRaw(form.aspectRatio))
  /\ UNCHANGED pageVars
  /\ UNCHANGED <<form, falKey, results, calls, uuidCount>>

\* for (const file of files) { const result = await runGeneration(...) }:
\* file i is reached once the results of the files before it are pushed
LoopNotAwaited(i) == IF i = 1 THEN TRUE ELSE gen[i - 1].pc # "idle"

LoopAwaited(i) == i = Len(results) + 1

StartGeneration(i) ==
  /\ pc = "loop"
  /\ gen[i].pc = "idle"
  /\ LoopAwaited(i)
  /\ uuidCount' = uuidCount + 1
  /\ gen' = [gen EXCEPT ![i] = [@ EXCEPT !.pc = "prompt",
                                         !.id = uuidCount + 1,
                                         !.originalName = OriginalName(files[i], uuidCount + 1)]]
  /\ calls' = Started("buildPrompt", i, "")
  /\ UNCHANGED pageVars
  /\ UNCHANGED <<form, falKey, pc, params, emphasis, aspectRatio, files, results, response>>

\* ---- runGeneration ----

SetGen(i, g) == gen' = [gen EXCEPT ![i] = g]

CallFal(i, log, g) ==
  /\ SetGen(i, [g EXCEPT !.pc = "fal"])
  /\ calls' = Append(log, Call("generateWithFal", i, aspectRatio))

CallPollinations(i, log, g) ==
  /\ SetGen(i, [g EXCEPT !.pc = "pollinations"])
  /\ calls' = Append(log, Call("generateWithPollinations", i, aspectRatio))

CallValidator(i, log, g) ==
  /\ SetGen(i, [g EXCEPT !.pc = "validator"])
  /\ calls' = Append(log, Call("validateMarineScene", i, g.usedEngine))

\* if (!imageUrl) { imageUrl = await generateWithPollinations(...) }
AfterPrimary(i, log, g) ==
  IF Falsy(g.imageUrl) THEN CallPollinations(i, log, g) ELSE CallValidator(i, log, g)

\* the outer catch: the item's result is the failed record
Catch(i, log, g, out) ==
  /\ SetGen(i, [g EXCEPT !.pc = "returned", !.result = <<FailedResult(g, out)>>])
  /\ calls' = log

FalCalls(log, i) ==
  Cardinality({k \in 1..Len(log) : log[k].file = i /\ log[k].svc = "generateWithFal"})

FalCatchRethrow(i, log, g, out) == Catch(i, log, g, out)

FalCatchRetry(i, log, g, out) ==
  IF FalCalls(log, i) < 2 THEN CallFal(i, log, g) ELSE AfterPrimary(i, log, g)

\* the inner catch around generateWithFal: log and carry on
FalCatch(i, log, g, out) == AfterPrimary(i, log, g)

PromptReturn(i) ==
  /\ gen[i].pc = "prompt"
  /\ \E out \in PromptOutcomes :
       LET log == Returned(calls, i, out) IN
         IF out.kind = "throw"
           THEN Catch(i, log, gen[i], out)
           ELSE /\ SetGen(i, [gen[i] EXCEPT !.pc = "base64"])
                /\ calls' = Append(log, Call("fileToBase64", i, ""))
  /\ UNCHANGED pageVars
  /\ UNCHANGED <<form, falKey, pc, params, emphasis, aspectRatio, files, results, response, uuidCount>>

Base64Return(i) ==
  /\ gen[i].pc = "base64"
  /\ \E out \in Base64Outcomes :
       LET log == Returned(calls, i, out)
           g == [gen[i] EXCEPT !.imageUrl = <<>>, !.usedEngine = "pollinations"]
       IN IF out.kind = "throw"
            THEN Catch(i, log, gen[i], out)
            ELSE IF falKey THEN CallFal(i, log, g) ELSE AfterPrimary(i, log, g)
  /\ UNCHANGED pageVars
  /\ UNCHANGED <<form, falKey, pc, params, emphasis, aspectRatio, files, results, response, uuidCount>>

FalReturn(i) ==
  /\ gen[i].pc = "fal"
  /\ \E out \in FalOutcomes :
       LET log == Returned(calls, i, out) IN
         IF out.kind = "throw"
           THEN FalCatch(i, log, gen[i], out)
           ELSE AfterPrimary(i, log, [gen[i] EXCEPT !.imageUrl = <<out.val>>,
                                                    !.usedEngine = "fal-ai/flux-pro"])
  /\ UNCHANGED pageVars
  /\ UNCHANGED <<form, falKey, pc, params, emphasis, aspectRatio, files, results, response, uuidCount>>

PollinationsReturn(i) ==
  /\ gen[i].pc = "pollinations"
  /\ \E out \in PollOutcomes :
       LET log == Returned(calls, i, out) IN
         IF out.kind = "throw"
           THEN Catch(i, log, gen[i], out)
           ELSE CallValidator(i, log, [gen[i] EXCEPT !.imageUrl = <<out.val>>])
  /\ UNCHANGED pageVars
  /\ UNCHANGED <<form, falKey, pc, params, emphasis, aspectRatio, files, results, response, uuidCount>>

ValidatorReturn(i) ==
  /\ gen[i].pc = "validator"
  /\ \E out \in ValidatorOutcomes :
       LET log == Returned(calls, i, out) IN
         IF out.kind = "throw"
           THEN Catch(i, log, gen[i], out)
           ELSE /\ SetGen(i, [gen[i] EXCEPT !.pc = "returned",
                                            !.result = <<SuccessResult(gen[i], out.val, aspectRatio)>>])
                /\ calls' = log
  /\ UNCHANGED pageVars
  /\ UNCHANGED <<form, falKey, pc, params, emphasis, aspectRatio, files, results, response, uuidCount>>

\* results.push(result)
Push(i) ==
  /\ pc = "loop"
  /\ gen[i].pc = "returned"
  /\ results' = PushResult(results, gen[i].result[1])
  /\ SetGen(i, [gen[i] EXCEPT !.pc = "pushed"])
  /\ UNCHANGED pageVars
  /\ UNCHANGED <<form, falKey, pc, params, emphasis, aspectRatio, files, response, calls, uuidCount>>

\* return NextResponse.json({ ..., results })
Respond ==
  /\ pc = "loop"
  /\ \A i \in 1..Len(files) : gen[i].pc = "pushed"
  /\ response' = <<[status |-> 200,
                   body |-> [mode |-> params.mode, lens |-> params.lens,
                             mood |-> params.mood, results |-> results]]>>
  /\ pc' = "done"
  /\ UNCHANGED pageVars
  /\ UNCHANGED <<form, falKey, params, emphasis, aspectRatio, files, results, gen, calls, uuidCount>>

Next ==
  \/ ParseForm
  \/ \E i \in 1..Len(files) : StartGeneration(i)
  \/ \E i \in 1..Len(files) : PromptReturn(i)
  \/ \E i \in 1..Len(files) : Base64Return(i)
  \/ \E i \in 1..Len(files) : FalReturn(i)
  \/ \E i \in 1..Len(files) : PollinationsReturn(i)
  \/ \E i \in 1..Len(files) : ValidatorReturn(i)
  \/ \E i \in 1..Len(files) : Push(i)
  \/ Respond

Spec == Init /\ [][Next]_vars

\* ---- the page component ----

\* onDrop: a LocalUpload with a fresh id and a fresh object URL
Upload(n) == [id |-> n, preview |-> <<"blob:", n>>]

Previews(list) == {list[k].preview : k \in 1..Len(list)}

\* useEffect(() => () => files.forEach(revokeObjectURL(preview)), [files]):
\* the cleanup of the effect registered for the previous list
EffectCleanup(previous) == Previews(previous)

\* setFiles with a new array: the handler's own revocations, then the commit
\* runs the cleanup of the previous effect
SetFiles(next, revokedByHandler) ==
  /\ pageFiles' = next
  /\ revoked' = revoked \cup revokedByHandler \cup EffectCleanup(pageFiles)

OnDrop(k) ==
  /\ mounted
  /\ uploadCount + k <= MaxUploads
  /\ SetFiles(pageFiles \o [j \in 1..k |-> Upload(uploadCount + j)], {})
  /\ uploadCount' = uploadCount + k
  /\ UNCHANGED <<isProcessing, pageResults, error, requests, launches, sinceReset, mounted>>
  /\ UNCHANGED serverVars

\* the remove button of one queue entry
RemoveFile(i) ==
  /\ mounted
  /\ SetFiles(SelectSeq(pageFiles, LAMBDA item : item.id # pageFiles[i].id),
              {pageFiles[i].preview})
  /\ UNCHANGED <<isProcessing, pageResults, error, requests, uploadCount, launches,
                 sinceReset, mounted>>
  /\ UNCHANGED serverVars

\* the Reset button is rendered while hasUploads
ResetWorkspace ==
  /\ mounted
  /\ Len(pageFiles) > 0
  /\ SetFiles(<<>>, Previews(pageFiles))
  /\ pageResults' = <<>>
  /\ error' = <<>>
  /\ sinceReset' = TRUE
  /\ UNCHANGED <<isProcessing, requests, uploadCount, launches, mounted>>
  /\ UNCHANGED serverVars

ButtonEnabledWhileProcessing == Len(pageFiles) > 0

\* disabled={isProcessing || !files.length}
ButtonEnabled == ~isProcessing /\ Len(pageFiles) > 0

ClearForLaunchKeepingResults ==
  /\ isProcessing' = TRUE
  /\ error' = <<>>
  /\ UNCHANGED pageResults

\* setIsProcessing(true); setError(null); setResults([])
ClearForLaunch ==
  /\ isProcessing' = TRUE
  /\ error' = <<>>
  /\ pageResults' = <<>>

\* handleProcess up to its first await
HandleProcess ==
  IF Len(pageFiles) = 0
    THEN /\ error' = <<"Drop a set of trailer photos first.">>
         /\ UNCHANGED <<isProcessing, pageResults, requests, sinceReset>>
    ELSE /\ ClearForLaunch
         /\ requests' = requests \cup
              {[id |-> launches + 1, pc |-> "fetch", sent |-> Len(pageFiles)]}
         /\ sinceReset' = FALSE

Launch ==
  /\ mounted
  /\ launches < MaxLaunches
  /\ ButtonEnabled
  /\ HandleProcess
  /\ launches' = launches + 1
  /\ UNCHANGED <<pageFiles, revoked, uploadCount, mounted>>
  /\ UNCHANGED serverVars

Moved(r, to) == requests' = (requests \ {r}) \cup {[r EXCEPT !.pc = to]}

\* catch (err) { setError(message) } finally { setIsProcessing(false) };
\* a state update of an unmounted component is dropped
Fail(r, message) ==
  /\ requests' = requests \ {r}
  /\ IF mounted
       THEN error' = <<message>> /\ isProcessing' = FALSE
       ELSE UNCHANGED <<error, isProcessing>>
  /\ UNCHANGED pageResults

\* setResults(payload.results) and the finally block
Succeed(r) ==
  /\ requests' = requests \ {r}
  /\ IF mounted
       THEN /\ pageResults' = [k \in 1..r.sent |-> [request |-> r.id, index |-> k]]
            /\ isProcessing' = FALSE
       ELSE UNCHANGED <<pageResults, isProcessing>>
  /\ UNCHANGED error

\* await fetch("/api/process", ...): rejected, answered 2xx, or answered otherwise
FetchSettles(r) ==
  /\ r.pc = "fetch"
  /\ \E outcome \in {"rejected", "ok", "not ok"} :
       IF outcome = "rejected" THEN Fail(r, "Failed to fetch")
       ELSE /\ Moved(r, IF outcome = "ok" THEN "json" ELSE "error body")
            /\ UNCHANGED <<error, isProcessing, pageResults>>
  /\ UNCHANGED <<pageFiles, revoked, uploadCount, launches, sinceReset, mounted>>
  /\ UNCHANGED serverVars

\* await response.json() of a 2xx answer
JsonSettles(r) ==
  /\ r.pc = "json"
  /\ \E outcome \in {"payload", "not JSON"} :
       IF outcome = "payload" THEN Succeed(r) ELSE Fail(r, "Unexpected end of JSON input")
  /\ UNCHANGED <<pageFiles, revoked, uploadCount, launches, sinceReset, mounted>>
  /\ UNCHANGED serverVars

\* await response.json().catch(() => null); throw new Error(detail?.error ?? ...)
ErrorBodySettles(r) ==
  /\ r.pc = "error body"
  /\ \E detail \in {<<>>, <<"No images provided.">>} :
       Fail(r, IF detail = <<>> THEN "Generation failed." ELSE detail[1])
  /\ UNCHANGED <<pageFiles, revoked, uploadCount, launches, sinceReset, mounted>>
  /\ UNCHANGED serverVars

\* the page goes away: the cleanup of the last effect runs
Unmount ==
  /\ mounted
  /\ mounted' = FALSE
  /\ revoked' = revoked \cup EffectCleanup(pageFiles)
  /\ UNCHANGED <<pageFiles, isProcessing, pageResults, error, requests, uploadCount,
                 launches, sinceReset>>
  /\ UNCHANGED serverVars

\* the endpoint at rest
ServerAtRest ==
  /\ form = [images |-> <<>>, aspectRatio |-> <<>>, mode |-> <<>>, mood |-> <<>>,
             lens |-> <<>>, emphasis |-> AbsentField]
  /\ falKey = FALSE
  /\ pc = "start"
  /\ params = [mode |-> "", lens |-> "", mood |-> ""]
  /\ emphasis = <<>>
  /\ aspectRatio = ""
  /\ files = <<>>
  /\ results = <<>>
  /\ response = <<>>
  /\ gen = <<>>
  /\ calls = <<>>
  /\ uuidCount = 0

PageInit == PageMounted /\ ServerAtRest

PageNext ==
  \/ \E k \in 0..MaxUploads : OnDrop(k)
  \/ \E i \in 1..Len(pageFiles) : RemoveFile(i)
  \/ ResetWorkspace
  \/ Launch
  \/ \E r \in requests : FetchSettles(r)
  \/ \E r \in requests : JsonSettles(r)
  \/ \E r \in requests : ErrorBodySettles(r)
  \/ Unmount

\* a request that was sent is answered or fails in the end
PageSpec ==
  /\ PageInit
  /\ [][PageNext]_vars
  /\ WF_vars(\E r \in requests : FetchSettles(r))
  /\ WF_vars(\E r \in requests : JsonSettles(r))
  /\ WF_vars(\E r \in requests : ErrorBodySettles(r))

\* ---- vocabulary of the properties ----

\* the File entries the request carries, in upload order
Uploaded == SelectSeq(form.images, LAMBDA e : e.kind = "file")

Answered == response # <<>>

\* log positions of the calls of service svc made for file i
CallsOf(i, svc) == {k \in 1..Len(calls) : calls[k].file = i /\ calls[k].svc = svc}

Finished(i) == gen[i].result # <<>>

ResultOf(i) == gen[i].result[1]

Has(r, field) == field \in DOMAIN r

Rank(svc) ==
  CASE svc = "buildPrompt" -> 1
    [] svc = "fileToBase64" -> 2
    [] svc = "generateWithFal" -> 3
    [] svc = "generateWithPollinations" -> 4
    [] svc = "validateMarineScene" -> 5

ErrorOf(out) == IF out.isError THEN out.val ELSE "Unknown generation error encountered."

\* the steps whose exception reaches the handler of runGeneration
OuterSteps == {"buildPrompt", "fileToBase64", "generateWithPollinations", "validateMarineScene"}

OuterThrows(i) == {k \in 1..Len(calls) : /\ calls[k].file = i
                                         /\ calls[k].svc \in OuterSteps
                                         /\ calls[k].out.kind = "throw"}

\* C1 (as stated): a request with n >= 1 files is answered 200 with exactly n
\* results, and the i-th result (at every moment of the batch, whatever failed
\* before or after it) carries the name of the i-th uploaded file.
C1_AsStated ==
  /\ \A i \in 1..Len(results) :
       i <= Len(Uploaded) /\ results[i].originalName = <<Uploaded[i].name>>
  /\ (Answered /\ Len(Uploaded) >= 1) =>
       /\ response[1].status = 200
       /\ Len(response[1].body.results) = Len(Uploaded)

\* C1 (amended): as C1, the i-th result carrying the i-th file's name when that
\* name is non-empty and the generated name upload-<id>.png (id the result's own
\* id) when the file's name is empty.
C1_BatchOrder ==
  /\ \A i \in 1..Len(results) :
       /\ i <= Len(Uploaded)
       /\ results[i].originalName =
            IF Uploaded[i].name # "" THEN <<Uploaded[i].name>>
            ELSE <<"upload-", results[i].id, ".png">>
  /\ (Answered /\ Len(Uploaded) >= 1) =>
       /\ response[1].status = 200
       /\ response[1].body.results = results
       /\ Len(results) = Len(Uploaded)

C1_Witness ==
  /\ Answered
  /\ Len(Uploaded) = 2
  /\ Uploaded[1].name = ""
  /\ Len(response[1].body.results) = 2
  /\ Has(results[1], "error")
  /\ results[2].stage = "completed"

\* C2: when prompt construction, base64 encoding, the fallback generator or the
\* validator throws for a file, runGeneration returns (it does not throw) a
\* result with exactly id, originalName, stage "failed" and the error string:
\* the Error's message, or the fixed text for a thrown non-Error.
C2_ThrowBecomesFailedItem ==
  \A i \in DOMAIN gen : \A k \in OuterThrows(i) :
    /\ gen[i].pc \in {"returned", "pushed"}
    /\ Finished(i)
    /\ ResultOf(i).stage = "failed"
    /\ DOMAIN ResultOf(i) = {"id", "originalName", "stage", "error"}
    /\ ResultOf(i).error = IF calls[k].out.isError
                             THEN calls[k].out.val
                             ELSE "Unknown generation error encountered."

C2_Witness ==
  \E i \in DOMAIN gen :
    /\ Finished(i)
    /\ gen[i].imageUrl \in {<<u>> : u \in FalUrls}
    /\ \E k \in CallsOf(i, "validateMarineScene") :
         calls[k].out.kind = "throw" /\ ~calls[k].out.isError
    /\ ResultOf(i).error = "Unknown generation error encountered."

\* C3: when generateWithFal throws for a file, generateWithPollinations is
\* called for that file, and the file's result is the one the fallback call and
\* the validator call decide.
C3_FallbackAfterPrimaryFailure ==
  \A i \in DOMAIN gen : \A k \in CallsOf(i, "generateWithFal") :
    calls[k].out.kind = "throw" =>
      /\ \E m \in CallsOf(i, "generateWithPollinations") : m > k
      /\ Finished(i) =>
           \E m \in CallsOf(i, "generateWithPollinations") :
             IF calls[m].out.kind = "throw"
               THEN /\ ResultOf(i).stage = "failed"
                    /\ ResultOf(i).error = ErrorOf(calls[m].out)
               ELSE \E v \in CallsOf(i, "validateMarineScene") :
                      IF calls[v].out.kind = "throw"
                        THEN /\ ResultOf(i).stage = "failed"
                             /\ ResultOf(i).error = ErrorOf(calls[v].out)
                        ELSE /\ ResultOf(i).imageUrl = calls[m].out.val
                             /\ ResultOf(i).validation.status = calls[v].out.val
                             /\ ResultOf(i).stage =
                                  IF calls[v].out.val = "flagged" THEN "failed" ELSE "completed"

C3_Witness ==
  \E i \in DOMAIN gen :
    /\ \E k \in CallsOf(i, "generateWithFal") : calls[k].out.kind = "throw"
    /\ Finished(i)
    /\ ResultOf(i).stage = "completed"
    /\ ResultOf(i).imageUrl \in PollUrls

\* C4: every result with metadata names in metadata.engine the provider whose
\* call returned its imageUrl ("fal-ai/flux-pro" exactly for an image of
\* generateWithFal, "pollinations" exactly for one of generateWithPollinations),
\* and the validator was sent the same engine.
C4_EngineNamesProvider ==
  \A i \in DOMAIN gen :
    (Finished(i) /\ Has(ResultOf(i), "metadata")) =>
      /\ ResultOf(i).metadata.engine = "fal-ai/flux-pro" <=>
           \E k \in CallsOf(i, "generateWithFal") :
             calls[k].out.kind = "value" /\ calls[k].out.val = ResultOf(i).imageUrl
      /\ ResultOf(i).metadata.engine = "pollinations" <=>
           \E k \in CallsOf(i, "generateWithPollinations") :
             calls[k].out.kind = "value" /\ calls[k].out.val = ResultOf(i).imageUrl
      /\ \A v \in CallsOf(i, "validateMarineScene") :
           calls[v].arg = ResultOf(i).metadata.engine

\* C5: at most one external call is outstanding at any time, and an external
\* call for file j exists only once the results of files 1..j-1 are in the
\* results list.
C5_OneFileAtATime ==
  /\ Cardinality({k \in 1..Len(calls) :
                    calls[k].svc \in ExternalCalls /\ calls[k].out = Pending}) <= 1
  /\ \A k \in 1..Len(calls) :
       calls[k].svc \in ExternalCalls => Len(results) >= calls[k].file - 1

C5_Witness ==
  /\ Len(results) = 1
  /\ \E k \in 1..Len(calls) :
       /\ calls[k].file = 2
       /\ calls[k].svc = "generateWithFal"
       /\ calls[k].out = Pending

C7_NoRetries ==
  \A i \in DOMAIN gen : \A svc \in ExternalCalls : Cardinality(CallsOf(i, svc)) <= 1

C7_Witness ==
  \E i \in DOMAIN gen :
    /\ Finished(i)
    /\ \E k \in CallsOf(i, "generateWithFal") : calls[k].out.kind = "throw"
    /\ \E k \in CallsOf(i, "generateWithPollinations") : calls[k].out.kind = "throw"

\* C8: a request without File entries under "images" is answered 400 with
\* {error: "No images provided."}, has no results and makes no call at all.
C8_NoImages ==
  Len(Uploaded) = 0 =>
    /\ calls = <<>>
    /\ results = <<>>
    /\ Answered =>
         /\ response[1].status = 400
         /\ response[1].body = [error |-> "No images provided."]
         /\ ~Has(response[1].body, "results")
    /\ pc # "start" => Answered

C8_Witness ==
  /\ Answered
  /\ Len(form.images) = MaxImages
  /\ \A k \in 1..Len(form.images) : form.images[k].kind = "string"
  /\ response[1].status = 400

C10_AspectRatio ==
  LET expected == IF form.aspectRatio # <<>> /\ form.aspectRatio[1] \in Aspects
                    THEN form.aspectRatio[1] ELSE "3:2"
  IN /\ pc # "start" => aspectRatio = expected
     /\ \A k \in 1..Len(calls) :
          calls[k].svc \in {"generateWithFal", "generateWithPollinations"} =>
            calls[k].arg = expected
     /\ \A i \in DOMAIN gen :
          (Finished(i) /\ Has(ResultOf(i), "metadata")) =>
            ResultOf(i).metadata.aspectRatio = expected

C10_Witness ==
  /\ form.aspectRatio = <<"4:3">>
  /\ \E k \in 1..Len(calls) : calls[k].svc = "generateWithFal" /\ calls[k].arg = "4:3"
  /\ \E i \in DOMAIN gen :
       Finished(i) /\ Has(ResultOf(i), "metadata") /\ ResultOf(i).metadata.aspectRatio = "4:3"

\* C11: whatever the form holds, the mode, mood and lens that POST hands to
\* runGeneration and echoes in the response are members of their fixed sets,
\* an absent field giving "running", "sunrise" and "wide".
C11_ParamsInFixedSets ==
  pc # "start" =>
    /\ params.mode \in Modes /\ params.mood \in Moods /\ params.lens \in Lenses
    /\ form.mode = <<>> => params.mode = "running"
    /\ form.mood = <<>> => params.mood = "sunrise"
    /\ form.lens = <<>> => params.lens = "wide"
    /\ (Answered /\ response[1].status = 200) =>
         /\ response[1].body.mode \in Modes
         /\ response[1].body.mood \in Moods
         /\ response[1].body.lens \in Lenses
    /\ \A i \in DOMAIN gen :
         (Finished(i) /\ Has(ResultOf(i), "metadata")) =>
           /\ ResultOf(i).metadata.mode \in Modes
           /\ ResultOf(i).metadata.mood \in Moods
           /\ ResultOf(i).metadata.lens \in Lenses

\* C12: parseJsonArray returns a list of trimmed, non-empty strings: for a JSON
\* array its entries stringified, trimmed, empty ones dropped, in order; for a
\* JSON string, or text that is not JSON, the comma-separated parts trimmed and
\* filtered likewise; for a missing field, a File, or any other JSON value the
\* empty list.
C12_ParseJsonArray ==
  pc # "start" =>
    /\ \A k \in 1..Len(emphasis) : emphasis[k] # <<>> /\ Trim(emphasis[k]) = emphasis[k]
    /\ IF form.emphasis.kind # "string" THEN emphasis = <<>>
       ELSE LET json == JSONParse(form.emphasis.text) IN
         IF ~json.ok THEN emphasis = SplitTrimFilter(form.emphasis.text)
         ELSE IF json.val.t = "array"
           THEN LET items == json.val.items IN
                  /\ \A k \in 1..Len(items) : ~ToStr(items[k]).throws
                  /\ emphasis = SelectSeq([k \in 1..Len(items) |-> Trim(ToStr(items[k]).s)],
                                          LAMBDA e : e # <<>>)
         ELSE IF json.val.t = "string" THEN emphasis = SplitTrimFilter(json.val.s)
         ELSE emphasis = <<>>

\* C13: while the page is mounted, isProcessing is true exactly while a request
\* of handleProcess is outstanding; the launch button is disabled while it is
\* true, so at most one request is outstanding; and after a submit isProcessing
\* returns to false in the end, however the request ends.
C13_Processing ==
  /\ [](/\ mounted => (isProcessing <=> requests # {})
        /\ isProcessing => ~ButtonEnabled
        /\ Cardinality(requests) <= 1)
  /\ ((mounted /\ isProcessing) ~> (~mounted \/ ~isProcessing))

C13_Witness ==
  /\ mounted
  /\ launches = 2
  /\ requests = {}
  /\ ~isProcessing
  /\ pageResults # <<>>

\* C14: resetWorkspace leaves the file list and the results empty and error
\* null, and from then on the results stay empty until handleProcess launches a
\* new batch, whatever else happens in between.
C14_ResetClears ==
  /\ [][ResetWorkspace => (pageFiles' = <<>> /\ pageResults' = <<>> /\ error' = <<>>)]_vars
  /\ [](sinceReset => pageResults = <<>>)

\* C15: every upload in the file list has a preview object URL that has not
\* been revoked.
C15_PreviewsLive ==
  mounted => \A k \in 1..Len(pageFiles) : pageFiles[k].preview \notin revoked

\* C16: the error banner and a non-empty results gallery never show together.
C16_ErrorOrResults == ~(error # <<>> /\ pageResults # <<>>)

C16_Witness ==
  /\ mounted
  /\ launches = 2
  /\ ~isProcessing
  /\ error # <<>>
  /\ pageResults = <<>>
====
